---- MODULE Spec2Model ----
(***************************************************************************)
(* A model of the Count-Min Sketch of src/src/lib.rs.                      *)
(*                                                                         *)
(* Two sketches, "A" and "B", are built by the constructors and then       *)
(* driven by increment, estimate, merge, l1_distance, cosine_similarity,   *)
(* clear and the two accessors.                                            *)
(*                                                                         *)
(* Scaling.  TLC's integers are 32 bits wide, so the two uses of u64 and   *)
(* the f64 are scaled down, each keeping its arithmetic (saturating,       *)
(* wrapping, rounding):                                                    *)
(*   - a counter of the table is a 2-bit word: U64_MAX stands for          *)
(*     u64::MAX, so that saturation is reached after a few calls;          *)
(*   - a hash value is a HashBits-wide word: the constants of the mixer    *)
(*     are the low byte of the source's, its shifts are the source's       *)
(*     divided by 8;                                                       *)
(*   - an f64 has MantissaBits significant bits instead of 53, and every   *)
(*     operation on it rounds to nearest, ties to even, as IEEE 754 does.  *)
(* Requested dimensions stay small: next_power_of_two and w * d stay       *)
(* within usize, as they do for every table that fits in memory.           *)
(***************************************************************************)
EXTENDS Integers, Sequences, FiniteSets, TLC

VARIABLES
    sk,      \* sk[s]: the fields of sketch s (width, width_mask, depth, table, hasher)
    ctor,    \* ctor[s]: how s was constructed (the constructor and its arguments)
    count,   \* count[s][x]: increments of x absorbed by s (own and merged) since
             \*              its construction or its last clear
    merges,  \* merges[s]: successful merges into s since construction or last clear
    fuel,    \* number of mutating calls the run may still make
    last,    \* the last call and what it returned
    pre,     \* sk, count and merges as they were before the last call
    ub       \* TRUE once an unchecked access has left the table

vars == <<sk, ctor, count, merges, fuel, last, pre, ub>>

----------------------------------------------------------------------------
(* Bounds of the model *)

MaxOps == 4          \* mutating calls of a run of Spec
MaxCtorOps == 1      \* mutating calls of a run of SpecCtor
MaxSatOps == 5       \* mutating calls of a run of SpecSat
MaxReqWidth == 5     \* widths requested from the constructors in SpecCtor
MaxReqDepth == 3     \* depths requested from the constructors in SpecCtor

(* Program constants, scaled as said above *)

U64_MAX == 3         \* u64::MAX of a counter
HashBits == 8        \* width of a hash value
MantissaBits == 6    \* significant bits of an f64
E_MICRO == 2718282   \* std::f64::consts::E, in millionths
GOLDEN_GAMMA == 21
MIX_MUL_1 == 185
MIX_MUL_2 == 235
MIX_SHIFT_1 == 4
MIX_SHIFT_2 == 3
MIX_SHIFT_3 == 4

Sketches == {"A", "B"}
Items == {1, 2}

DefaultSeeds == <<2025, 2, 18, 2118>>
SeedChoices == {DefaultSeeds, <<1, 2, 3, 4>>}

----------------------------------------------------------------------------
(* Word arithmetic *)

RECURSIVE Pow2(_)
Pow2(n) == IF n = 0 THEN 1 ELSE 2 * Pow2(n - 1)

HashMod == Pow2(HashBits)

RECURSIVE BitAnd(_, _)
BitAnd(a, b) ==
    IF a = 0 \/ b = 0 THEN 0
    ELSE (IF a % 2 = 1 /\ b % 2 = 1 THEN 1 ELSE 0) + 2 * BitAnd(a \div 2, b \div 2)

RECURSIVE BitOr(_, _)
BitOr(a, b) ==
    IF a = 0 THEN b
    ELSE IF b = 0 THEN a
    ELSE (IF a % 2 = 1 \/ b % 2 = 1 THEN 1 ELSE 0) + 2 * BitOr(a \div 2, b \div 2)

RECURSIVE BitXor(_, _)
BitXor(a, b) ==
    IF a = 0 THEN b
    ELSE IF b = 0 THEN a
    ELSE (IF a % 2 # b % 2 THEN 1 ELSE 0) + 2 * BitXor(a \div 2, b \div 2)

ShiftRight(a, n) == a \div Pow2(n)

WrappingAdd(a, b) == (a + b) % HashMod

WrappingMul(a, b) == (a * b) % HashMod

SaturatingAddWraps(a, b) == (a + b) % (U64_MAX + 1)

SaturatingAdd(a, b) == IF a + b > U64_MAX THEN U64_MAX ELSE a + b

AbsDiffMax(a, b) == IF a >= b THEN a ELSE b

AbsDiff(a, b) == IF a >= b THEN a - b ELSE b - a

RECURSIVE NextPow2From(_, _)
NextPow2From(p, n) == IF p >= n THEN p ELSE NextPow2From(2 * p, n)

NextPowerOfTwoStrict(n) == NextPow2From(1, n + 1)

NextPowerOfTwo(n) == NextPow2From(1, n)

RECURSIVE IsPowerOfTwo(_)
IsPowerOfTwo(n) == n = 1 \/ (n > 1 /\ n % 2 = 0 /\ IsPowerOfTwo(n \div 2))

----------------------------------------------------------------------------
(* The keyed hash (ahash's RandomState, outside the repository): some        *)
(* deterministic function of the four seeds and the item.  With this one the *)
(* two items share their cells at width 2 and share the cell of row 0 only   *)
(* at width 4, and other seeds move an item to other cells.                  *)

HashOne(seeds, item) ==
    (seeds[1] * 3 + seeds[2] * 5 + seeds[3] * 7 + seeds[4] * 11 + item * 16) % HashMod

----------------------------------------------------------------------------
(* Construction *)

ZeroTable(n) == [i \in 0..(n - 1) |-> 0]

NewMaskOfRequest(width, depth) ==
    LET w == NextPowerOfTwo(width)
        d == NextPowerOfTwo(depth)
    IN  [width |-> w, width_mask |-> width - 1, depth |-> d,
         table |-> ZeroTable(w * d), hasher |-> DefaultSeeds]

New(width, depth) ==
    LET w == NextPowerOfTwo(width)
        d == NextPowerOfTwo(depth)
    IN  [width |-> w, width_mask |-> w - 1, depth |-> d,
         table |-> ZeroTable(w * d), hasher |-> DefaultSeeds]

WithSeeds(width, depth, seeds) ==
    LET w == NextPowerOfTwo(width)
        d == NextPowerOfTwo(depth)
    IN  [width |-> w, width_mask |-> w - 1, depth |-> d,
         table |-> ZeroTable(w * d), hasher |-> seeds]

CeilDiv(a, b) == (a + b - 1) \div b

\* ceil(e / epsilon) for epsilon = 1 / eps_inv, with e to six decimals.
CeilEOver(eps_inv) == CeilDiv(E_MICRO * eps_inv, 1000000)

\* floor(e^k) for k = 1..6.
ExpFloor == <<2, 7, 20, 54, 148, 403>>

\* ceil(ln(1 / delta)) for delta = 1 / delta_inv: the least k with delta_inv <= e^k.
CeilLn(delta_inv) ==
    CHOOSE k \in 1..Len(ExpFloor) :
        /\ delta_inv <= ExpFloor[k]
        /\ k > 1 => delta_inv > ExpFloor[k - 1]

\* with_params(1 / eps_inv, 1 / delta_inv), for integers eps_inv, delta_inv >= 2.
WithParams(eps_inv, delta_inv) == New(CeilEOver(eps_inv), CeilLn(delta_inv))

GetWidth(s) == s.width

GetDepth(s) == s.depth

TableLen(s) == Cardinality(DOMAIN s.table)

----------------------------------------------------------------------------
(* Indexing *)

MixH2(h1) ==
    LET a == WrappingAdd(h1, GOLDEN_GAMMA)
        b == WrappingMul(BitXor(a, ShiftRight(a, MIX_SHIFT_1)), MIX_MUL_1)
        c == WrappingMul(BitXor(b, ShiftRight(b, MIX_SHIFT_2)), MIX_MUL_2)
        e == BitXor(c, ShiftRight(c, MIX_SHIFT_3))
    IN  BitOr(e, 1)

\* MixH2 on every hash value, evaluated once.
MixTable == [h1 \in 0..(HashMod - 1) |-> MixH2(h1)]

CalculateIndicesMaskIsWidth(h1, depth, width, mask) ==
    LET h2 == MixTable[h1]
    IN  [i \in 0..(depth - 1) |->
            i * width + BitAnd(WrappingAdd(h1, WrappingMul(i, h2)), width)]

\* The index f is called with for each row i of 0..depth-1, as a function of i.
CalculateIndices(h1, depth, width, mask) ==
    LET h2 == MixTable[h1]
    IN  [i \in 0..(depth - 1) |->
            i * width + BitAnd(WrappingAdd(h1, WrappingMul(i, h2)), mask)]

IndicesOf(s, item) ==
    CalculateIndices(HashOne(s.hasher, item), s.depth, s.width, s.width_mask)

InTable(s, idx) == idx \in DOMAIN s.table

\* Whether a call on item would touch memory outside the table.
OutOfBounds(s, item) ==
    LET idxs == IndicesOf(s, item)
    IN  \E i \in DOMAIN idxs : ~InTable(s, idxs[i])

----------------------------------------------------------------------------
(* increment and estimate *)

\* The closure of increment applied to the indices of rows i..depth-1 in turn.
RECURSIVE IncrementFrom(_, _, _, _)
IncrementFrom(table, idxs, i, depth) ==
    IF i >= depth THEN table
    ELSE IncrementFrom(
            IF idxs[i] \in DOMAIN table
                THEN [table EXCEPT ![idxs[i]] = SaturatingAdd(@, 1)]
                ELSE table,
            idxs, i + 1, depth)

IncrementTableSkipsLastRow(s, item) ==
    IncrementFrom(s.table, IndicesOf(s, item), 0, s.depth - 1)

IncrementTableStopsAtMax(s, item) ==
    IF \E i \in 0..(s.depth - 1) : s.table[IndicesOf(s, item)[i]] = U64_MAX
    THEN s.table
    ELSE IncrementFrom(s.table, IndicesOf(s, item), 0, s.depth)

IncrementTable(s, item) == IncrementFrom(s.table, IndicesOf(s, item), 0, s.depth)

\* The closure of estimate applied to the indices of rows i..depth-1 in turn.
RECURSIVE MinFrom(_, _, _, _, _)
MinFrom(table, idxs, i, depth, min_val) ==
    IF i >= depth THEN min_val
    ELSE LET val == IF idxs[i] \in DOMAIN table THEN table[idxs[i]] ELSE 0
         IN  MinFrom(table, idxs, i + 1, depth, IF val < min_val THEN val ELSE min_val)

EstimateFirstRow(s, item) == s.table[IndicesOf(s, item)[0]]

Estimate(s, item) ==
    LET min_val == MinFrom(s.table, IndicesOf(s, item), 0, s.depth, U64_MAX)
    IN  IF min_val = U64_MAX THEN 0 ELSE min_val

----------------------------------------------------------------------------
(* merge, l1_distance, cosine_similarity, clear *)

DimensionsDifferDepthOnly(a, b) == a.depth # b.depth

DimensionsDiffer(a, b) == a.width # b.width \/ a.depth # b.depth

MergeTableKeepsOnOverflow(t, u) ==
    [i \in DOMAIN t |->
        IF i \in DOMAIN u /\ t[i] + u[i] <= U64_MAX THEN t[i] + u[i] ELSE t[i]]

MergeTableWrapping(t, u) ==
    [i \in DOMAIN t |-> IF i \in DOMAIN u THEN (t[i] + u[i]) % (U64_MAX + 1) ELSE t[i]]

MergeTableOverwrites(t, u) ==
    [i \in DOMAIN t |-> IF i \in DOMAIN u THEN u[i] ELSE t[i]]

\* self.table.iter_mut().zip(other.table.iter()): the cells both tables have.
MergeTable(t, u) ==
    [i \in DOMAIN t |-> IF i \in DOMAIN u THEN SaturatingAdd(t[i], u[i]) ELSE t[i]]

\* The sum of f[i] for i in start..end-1.
RECURSIVE SumFrom(_, _, _)
SumFrom(f, start, end) ==
    IF start >= end THEN 0
    ELSE IF start + 1 = end THEN f[start]
    ELSE LET mid == (start + end) \div 2
         IN  SumFrom(f, start, mid) + SumFrom(f, mid, end)

\* The sum of |a - b| over row d, before it is reduced to a u64.
RowL1(a, b, d) ==
    LET start == d * a.width
        end == start + a.width
        diff == [i \in start..(end - 1) |-> AbsDiff(a.table[i], b.table[i])]
    IN  SumFrom(diff, start, end)

\* Whether a row of a is not wholly inside b's table: slicing it panics.
SliceOutOfRange(a, b) == a.width * a.depth > Cardinality(DOMAIN b.table)

\* Whether the u64 sum of some row overflows.
L1Overflows(a, b) == \E d \in 0..(a.depth - 1) : RowL1(a, b, d) > U64_MAX

RECURSIVE L1From(_, _, _, _)
L1From(a, b, d, min_l1) ==
    IF d >= a.depth THEN min_l1
    ELSE LET row_l1 == RowL1(a, b, d) % (U64_MAX + 1)
         IN  L1From(a, b, d + 1, IF row_l1 < min_l1 THEN row_l1 ELSE min_l1)

L1Distance(a, b) == L1From(a, b, 0, U64_MAX)

\* An f64 is the number m * 2^e with m of MantissaBits bits, or zero.  Every
\* operation returns the f64 nearest to its exact result, ties to even; the
\* values of the model are far from the range limits of the exponent.
FloatZero == [m |-> 0, e |-> 0]

RECURSIVE BitLength(_)
BitLength(n) == IF n = 0 THEN 0 ELSE 1 + BitLength(n \div 2)

\* The f64 nearest to m * 2^e, for a natural number m.
RoundToFloat(m, e) ==
    IF m = 0 THEN FloatZero
    ELSE LET s == BitLength(m) - MantissaBits
         IN  IF s <= 0 THEN [m |-> m * Pow2(-s), e |-> e + s]
             ELSE LET q == m \div Pow2(s)
                      r == m % Pow2(s)
                      half == Pow2(s - 1)
                      up == IF r > half \/ (r = half /\ q % 2 = 1) THEN q + 1 ELSE q
                  IN  IF up = Pow2(MantissaBits)
                        THEN [m |-> Pow2(MantissaBits - 1), e |-> e + s + 1]
                        ELSE [m |-> up, e |-> e + s]

\* a as f64
FloatOfU64(a) == RoundToFloat(a, 0)

FloatMul(x, y) == RoundToFloat(x.m * y.m, x.e + y.e)

FloatAdd(x, y) ==
    IF x.m = 0 THEN y
    ELSE IF y.m = 0 THEN x
    ELSE LET hi == IF x.e >= y.e THEN x ELSE y
             lo == IF x.e >= y.e THEN y ELSE x
             d == hi.e - lo.e
         IN  IF d > MantissaBits + 1 THEN hi
             ELSE RoundToFloat(hi.m * Pow2(d) + lo.m, lo.e)

\* x.sqrt(): r * 2^f with r the integer nearest to the root of n = x / 4^f.
FloatSqrt(x) ==
    IF x.m = 0 THEN FloatZero
    ELSE LET f == ((MantissaBits + x.e + 1) \div 2) - MantissaBits
             n == x.m * Pow2(x.e - 2 * f)
             r == CHOOSE k \in Pow2(MantissaBits - 1)..(Pow2(MantissaBits) - 1) :
                      k * k <= n /\ n < (k + 1) * (k + 1)
             up == IF n > r * r + r THEN r + 1 ELSE r
         IN  IF up = Pow2(MantissaBits)
               THEN [m |-> Pow2(MantissaBits - 1), e |-> f + 1]
               ELSE [m |-> up, e |-> f]

\* x / y, for y > 0.
FloatDiv(x, y) ==
    IF x.m = 0 THEN FloatZero
    ELSE LET t == IF x.m >= y.m THEN MantissaBits - 1 ELSE MantissaBits
             q == (x.m * Pow2(t)) \div y.m
             r == (x.m * Pow2(t)) % y.m
             up == IF 2 * r > y.m \/ (2 * r = y.m /\ q % 2 = 1) THEN q + 1 ELSE q
         IN  IF up = Pow2(MantissaBits)
               THEN [m |-> Pow2(MantissaBits - 1), e |-> x.e - y.e - t + 1]
               ELSE [m |-> up, e |-> x.e - y.e - t]

\* x < y, for x, y >= 0.
FloatLess(x, y) ==
    IF y.m = 0 THEN FALSE
    ELSE IF x.m = 0 THEN TRUE
    ELSE x.e < y.e \/ (x.e = y.e /\ x.m < y.m)

FloatMax(x, y) == IF FloatLess(x, y) THEN y ELSE x

\* (a as f64) * (b as f64) on every pair of counters, evaluated once.
ProductTable ==
    [a \in 0..U64_MAX |-> [b \in 0..U64_MAX |-> FloatMul(FloatOfU64(a), FloatOfU64(b))]]

\* The body of the loop over the cells of a row, on cell i.
DotStep(acc, a, b, i) ==
    LET ca == a.table[i]
        cb == b.table[i]
    IN  [dot |-> FloatAdd(acc.dot, ProductTable[ca][cb]),
         n_a |-> FloatAdd(acc.n_a, ProductTable[ca][ca]),
         n_b |-> FloatAdd(acc.n_b, ProductTable[cb][cb])]

\* The loop over the cells start..end-1, in this order, from acc (the test on
\* left only has the first half evaluated before the second).
RECURSIVE DotFrom(_, _, _, _, _)
DotFrom(acc, a, b, start, end) ==
    IF start >= end THEN acc
    ELSE IF start + 1 = end THEN DotStep(acc, a, b, start)
    ELSE LET mid == (start + end) \div 2
             left == DotFrom(acc, a, b, start, mid)
         IN  IF left.dot.m >= 0 THEN DotFrom(left, a, b, mid, end) ELSE left

\* dot, n_a and n_b of row d.
RowDot(a, b, d) ==
    DotFrom([dot |-> FloatZero, n_a |-> FloatZero, n_b |-> FloatZero],
            a, b, d * a.width, d * a.width + a.width)

RECURSIVE CosineFrom(_, _, _, _)
CosineFrom(a, b, d, max_sim) ==
    IF d >= a.depth THEN max_sim
    ELSE LET r == RowDot(a, b, d)
         IN  CosineFrom(a, b, d + 1,
                IF FloatLess(FloatZero, r.n_a) /\ FloatLess(FloatZero, r.n_b)
                THEN FloatMax(max_sim,
                        FloatDiv(r.dot, FloatMul(FloatSqrt(r.n_a), FloatSqrt(r.n_b))))
                ELSE max_sim)

CosineSimilarity(a, b) == CosineFrom(a, b, 0, FloatZero)

ClearTableKeeps(s) == s.table

ClearTableOneRow(s) == ZeroTable(s.width)

ClearTable(s) == ZeroTable(s.width * s.depth)

----------------------------------------------------------------------------
(* The calls a run makes *)

\* A call and what it returned: the value val * 2^exp (an integer has exp = 0).
Call(op, self, other, item, status, val, exp) ==
    [op |-> op, self |-> self, other |-> other, item |-> item,
     status |-> status, val |-> val, exp |-> exp]

Snapshot == [sk |-> sk, count |-> count, merges |-> merges]

ZeroCount == [x \in Items |-> 0]

NewCall(w, d) ==
    [kind |-> "new", width |-> w, depth |-> d, seeds |-> DefaultSeeds,
     eps_inv |-> 0, delta_inv |-> 0]

WithSeedsCall(w, d, seeds) ==
    [kind |-> "with_seeds", width |-> w, depth |-> d, seeds |-> seeds,
     eps_inv |-> 0, delta_inv |-> 0]

WithParamsCall(eps_inv, delta_inv) ==
    [kind |-> "with_params", width |-> 0, depth |-> 0, seeds |-> DefaultSeeds,
     eps_inv |-> eps_inv, delta_inv |-> delta_inv]

Construct(c) ==
    CASE c.kind = "new" -> New(c.width, c.depth)
      [] c.kind = "with_seeds" -> WithSeeds(c.width, c.depth, c.seeds)
      [] c.kind = "with_params" -> WithParams(c.eps_inv, c.delta_inv)

\* The constructor calls of Spec: two effective shapes (2 x 2 and 4 x 2), the
\* second one requested in two ways and with the default or with other seeds.
CtorCalls ==
    {NewCall(2, 2), NewCall(3, 2), NewCall(4, 2)}
    \cup {WithSeedsCall(3, 2, seeds) : seeds \in SeedChoices \ {DefaultSeeds}}

\* The constructor calls of SpecCtor: every requested width and depth of the
\* bounds, and with_params on a few error bounds, (0.01, 0.01) among them.
AllCtorCalls ==
    {NewCall(w, d) : w \in 1..MaxReqWidth, d \in 1..MaxReqDepth}
    \cup {WithSeedsCall(w, d, seeds) : w \in 1..MaxReqWidth, d \in 1..MaxReqDepth,
                                       seeds \in SeedChoices \ {DefaultSeeds}}
    \cup {WithParamsCall(100, 100), WithParamsCall(2, 3)}

InitWith(callsA, callsB, calls) ==
    /\ ctor \in [Sketches -> callsA \cup callsB]
    /\ ctor["A"] \in callsA
    /\ ctor["B"] \in callsB
    /\ sk = [s \in Sketches |-> Construct(ctor[s])]
    /\ count = [s \in Sketches |-> ZeroCount]
    /\ merges = [s \in Sketches |-> 0]
    /\ fuel = calls
    /\ last = Call("construct", "A", "B", 0, "Ok", 0, 0)
    /\ pre = [sk |-> sk, count |-> count, merges |-> merges]
    /\ ub = FALSE

Init == InitWith(CtorCalls, CtorCalls, MaxOps)

InitCtor == InitWith(AllCtorCalls, CtorCalls, MaxCtorOps)

\* The constructor calls of SpecSat: two shapes only, on which a longer run
\* drives counters to their maximum by increments alone.
SatCtorCalls == {NewCall(2, 2), NewCall(4, 2)}

InitSat == InitWith(SatCtorCalls, SatCtorCalls, MaxSatOps)

Queries == {"estimate", "l1_distance", "cosine_similarity", "get_width", "get_depth"}

\* A query changes nothing but last and pre, so the state a call leads to after a
\* query is the state it leads to without the query: a run makes its mutating
\* calls and may end with one query, which reaches every state any run reaches.
Running == ~ub /\ last.op \notin Queries

Increment(s, x) ==
    /\ Running
    /\ fuel > 0
    /\ pre' = Snapshot
    /\ fuel' = fuel - 1
    /\ ub' = OutOfBounds(sk[s], x)
    /\ sk' = [sk EXCEPT ![s].table = IncrementTable(sk[s], x)]
    /\ count' = [count EXCEPT ![s][x] = @ + 1]
    /\ last' = Call("increment", s, s, x, "Ok", 0, 0)
    /\ UNCHANGED <<ctor, merges>>

EstimateCall(s, x) ==
    /\ Running
    /\ pre' = Snapshot
    /\ ub' = OutOfBounds(sk[s], x)
    /\ last' = Call("estimate", s, s, x, "Ok", Estimate(sk[s], x), 0)
    /\ UNCHANGED <<sk, ctor, count, merges, fuel>>

Merge(s, o) ==
    /\ Running
    /\ s # o
    /\ fuel > 0
    /\ pre' = Snapshot
    /\ fuel' = fuel - 1
    /\ IF DimensionsDiffer(sk[s], sk[o])
       THEN /\ last' = Call("merge", s, o, 0, "Err", 0, 0)
            /\ UNCHANGED <<sk, count, merges>>
       ELSE /\ sk' = [sk EXCEPT ![s].table = MergeTable(sk[s].table, sk[o].table)]
            /\ count' = [count EXCEPT ![s] = [x \in Items |-> count[s][x] + count[o][x]]]
            /\ merges' = [merges EXCEPT ![s] = @ + 1]
            /\ last' = Call("merge", s, o, 0, "Ok", 0, 0)
    /\ UNCHANGED <<ctor, ub>>

\* overflow_checks: whether the build panics on integer overflow (a debug build)
\* or wraps (a release build).
L1DistanceCall(s, o, overflow_checks) ==
    /\ Running
    /\ pre' = Snapshot
    /\ last' =
        IF DimensionsDiffer(sk[s], sk[o])
        THEN Call("l1_distance", s, o, 0, "Err", 0, 0)
        ELSE IF SliceOutOfRange(sk[s], sk[s]) \/ SliceOutOfRange(sk[s], sk[o])
        THEN Call("l1_distance", s, o, 0, "Panic", 0, 0)
        ELSE IF overflow_checks /\ L1Overflows(sk[s], sk[o])
        THEN Call("l1_distance", s, o, 0, "Panic", 0, 0)
        ELSE Call("l1_distance", s, o, 0, "Ok", L1Distance(sk[s], sk[o]), 0)
    /\ UNCHANGED <<sk, ctor, count, merges, fuel, ub>>

CosineSimilarityCall(s, o) ==
    /\ Running
    /\ pre' = Snapshot
    /\ last' =
        IF DimensionsDiffer(sk[s], sk[o])
        THEN Call("cosine_similarity", s, o, 0, "Err", 0, 0)
        ELSE IF SliceOutOfRange(sk[s], sk[s]) \/ SliceOutOfRange(sk[s], sk[o])
        THEN Call("cosine_similarity", s, o, 0, "Panic", 0, 0)
        ELSE LET sim == CosineSimilarity(sk[s], sk[o])
             IN  Call("cosine_similarity", s, o, 0, "Ok", sim.m, sim.e)
    /\ UNCHANGED <<sk, ctor, count, merges, fuel, ub>>

Clear(s) ==
    /\ Running
    /\ fuel > 0
    /\ pre' = Snapshot
    /\ fuel' = fuel - 1
    /\ sk' = [sk EXCEPT ![s].table = ClearTable(sk[s])]
    /\ count' = [count EXCEPT ![s] = ZeroCount]
    /\ merges' = [merges EXCEPT ![s] = 0]
    /\ last' = Call("clear", s, s, 0, "Ok", 0, 0)
    /\ UNCHANGED <<ctor, ub>>

GetWidthCall(s) ==
    /\ Running
    /\ pre' = Snapshot
    /\ last' = Call("get_width", s, s, 0, "Ok", GetWidth(sk[s]), 0)
    /\ UNCHANGED <<sk, ctor, count, merges, fuel, ub>>

GetDepthCall(s) ==
    /\ Running
    /\ pre' = Snapshot
    /\ last' = Call("get_depth", s, s, 0, "Ok", GetDepth(sk[s]), 0)
    /\ UNCHANGED <<sk, ctor, count, merges, fuel, ub>>

Next ==
    \/ \E s \in Sketches, x \in Items : Increment(s, x)
    \/ \E s \in Sketches, x \in Items : EstimateCall(s, x)
    \/ \E s \in Sketches, o \in Sketches : Merge(s, o)
    \/ \E s \in Sketches, o \in Sketches, c \in BOOLEAN : L1DistanceCall(s, o, c)
    \/ \E s \in Sketches, o \in Sketches : CosineSimilarityCall(s, o)
    \/ \E s \in Sketches : Clear(s)
    \/ \E s \in Sketches : GetWidthCall(s)
    \/ \E s \in Sketches : GetDepthCall(s)

Spec == Init /\ [][Next]_vars

SpecCtor == InitCtor /\ [][Next]_vars

SpecSat == InitSat /\ [][Next]_vars

----------------------------------------------------------------------------
(* What the claims speak of *)

Self == last.self
Other == last.other

RequestedWidth(c) == IF c.kind = "with_params" THEN CeilEOver(c.eps_inv) ELSE c.width

RequestedDepth(c) == IF c.kind = "with_params" THEN CeilLn(c.delta_inv) ELSE c.depth

\* The counters at the cells of item, one per row.
CellsOf(s, item) == {s.table[IndicesOf(s, item)[i]] : i \in 0..(s.depth - 1)}

MinOf(S) == CHOOSE m \in S : \A v \in S : m <= v

AllZero(s) == \A i \in DOMAIN s.table : s.table[i] = 0

\* s was built by increments alone since its construction or last clear.
IncrementsOnly(s) == merges[s] = 0

\* The sketch s after n further calls of increment(x).
RECURSIVE IncrementTimes(_, _, _)
IncrementTimes(s, x, n) ==
    IF n = 0 THEN s
    ELSE IncrementTimes([s EXCEPT !.table = IncrementTable(s, x)], x, n - 1)

\* The sketch s after a stream holding cnt[x] increments of each item x of xs.
RECURSIVE ReplayOver(_, _, _)
ReplayOver(s, cnt, xs) ==
    IF xs = {} THEN s
    ELSE LET x == CHOOSE y \in xs : \A z \in xs : y <= z
         IN  ReplayOver(IncrementTimes(s, x, cnt[x]), cnt, xs \ {x})

Replay(s, cnt) == ReplayOver(s, cnt, Items)

\* A third sketch with the dimensions and seeds of s, freshly constructed.
FreshLike(s) == WithSeeds(s.width, s.depth, s.hasher)

\* The sum of the counters of row d of s.
RowSum(s, d) == SumFrom(s.table, d * s.width, d * s.width + s.width)

\* The increments s has absorbed, its own and those of the sketches merged in.
RECURSIVE CountOver(_, _)
CountOver(cnt, xs) ==
    IF xs = {} THEN 0
    ELSE LET x == CHOOSE y \in xs : TRUE
         IN  cnt[x] + CountOver(cnt, xs \ {x})

TotalCount(s) == CountOver(count[s], Items)

----------------------------------------------------------------------------
\* C1 (as claimed): after any sequence of increments on a freshly constructed
\* sketch, estimate(x) is at least the number of increment(x) calls, for every x.
C1_NoUnderestimation ==
    \A s \in Sketches, x \in Items :
        IncrementsOnly(s) => Estimate(sk[s], x) >= count[s][x]

----------------------------------------------------------------------------
----------------------------------------------------------------------------
\* C4 (as claimed): in every reachable table state estimate(x) is exactly the
\* minimum of the depth counters at x's cells, and 0 only stands in when depth
\* is zero.
C4_EstimateIsMinimum ==
    \A s \in Sketches, x \in Items :
        Estimate(sk[s], x) =
            IF sk[s].depth = 0 THEN 0 ELSE MinOf(CellsOf(sk[s], x))

----------------------------------------------------------------------------
\* C5: across increment and merge steps every counter is non-decreasing and at
\* most the counter's maximum; a counter decreases only in a clear step.
C5_CountersMonotoneAndBounded ==
    \A s \in Sketches : \A i \in DOMAIN sk[s].table :
        /\ sk[s].table[i] <= U64_MAX
        /\ last.op \in {"increment", "merge"} => sk[s].table[i] >= pre.sk[s].table[i]
        /\ sk[s].table[i] < pre.sk[s].table[i] => (last.op = "clear" /\ s = Self)

\* C5 witness: a merge has just added two counters whose sum exceeds the
\* maximum, and the counter is at the maximum.
C5_Witness ==
    /\ last.op = "merge" /\ last.status = "Ok"
    /\ \E i \in DOMAIN sk[Self].table :
          /\ pre.sk[Self].table[i] + sk[Other].table[i] > U64_MAX
          /\ pre.sk[Self].table[i] < U64_MAX
          /\ sk[Self].table[i] = U64_MAX

----------------------------------------------------------------------------
\* C6 (as claimed): on a fresh or just cleared sketch on which only one key k is
\* incremented, n times, estimate(k) = n for every n from 0 up to and including
\* the counter's maximum.
C6_ExactSingleKey ==
    \A s \in Sketches, k \in Items :
        (/\ IncrementsOnly(s)
         /\ \A y \in Items \ {k} : count[s][y] = 0
         /\ count[s][k] <= U64_MAX)
        => Estimate(sk[s], k) = count[s][k]

----------------------------------------------------------------------------
\* C7: after clear every counter is 0, so estimate(x) = 0 for every x, while
\* width, depth and the seeds are unchanged, so every item keeps its cells.
C7_ClearResets ==
    last.op = "clear" =>
        /\ AllZero(sk[Self])
        /\ DOMAIN sk[Self].table = DOMAIN pre.sk[Self].table
        /\ \A x \in Items : Estimate(sk[Self], x) = 0
        /\ sk[Self].width = pre.sk[Self].width
        /\ sk[Self].width_mask = pre.sk[Self].width_mask
        /\ sk[Self].depth = pre.sk[Self].depth
        /\ sk[Self].hasher = pre.sk[Self].hasher
        /\ \A x \in Items : IndicesOf(sk[Self], x) = IndicesOf(pre.sk[Self], x)
        /\ \A o \in Sketches \ {Self} : sk[o] = pre.sk[o]

\* C7 witness: a sketch that held increments and a merge has just been cleared.
C7_Witness ==
    /\ last.op = "clear"
    /\ pre.merges[Self] > 0
    /\ \E x \in Items : Estimate(pre.sk[Self], x) > 0

----------------------------------------------------------------------------
----------------------------------------------------------------------------
\* C9 (as claimed): the sketch built by new or with_seeds has the requested
\* depth and exactly that many rows; with_params yields depth
\* ceil(ln(1/delta)), so with_params(0.01, 0.01) yields width 512 and depth 5.
C9_DepthAsGiven ==
    \A s \in Sketches :
        /\ GetDepth(sk[s]) = RequestedDepth(ctor[s])
        /\ TableLen(sk[s]) = sk[s].width * RequestedDepth(ctor[s])
        /\ ctor[s] = WithParamsCall(100, 100)
              => (GetWidth(sk[s]) = 512 /\ GetDepth(sk[s]) = 5)

----------------------------------------------------------------------------
----------------------------------------------------------------------------
\* C11: for two sketches A and B of identical dimensions and hash seeds, each
\* built by increments alone (streams sA and sB), the table of A after a
\* successful A.merge(B) is cell for cell the table of a third sketch of the
\* same dimensions and seeds to which all increments of sA and then all
\* increments of sB were applied, also when counters reach their maximum.
C11_MergeIsConcatenation ==
    (/\ last.op = "merge" /\ last.status = "Ok"
     /\ pre.merges[Self] = 0 /\ pre.merges[Other] = 0
     /\ pre.sk[Self].hasher = pre.sk[Other].hasher)
    => sk[Self].table =
          Replay(Replay(FreshLike(pre.sk[Self]), pre.count[Self]), pre.count[Other]).table

\* C11 witness: such a merge has just succeeded on two streams of different
\* items, neither of which alone brought a counter to its maximum, and a counter
\* of the merged table is clipped at the maximum.
C11_Witness ==
    /\ last.op = "merge" /\ last.status = "Ok"
    /\ pre.merges[Self] = 0 /\ pre.merges[Other] = 0
    /\ pre.sk[Self].hasher = pre.sk[Other].hasher
    /\ \E x \in Items : \E y \in Items \ {x} :
          pre.count[Self][x] > 0 /\ pre.count[Other][y] > 0
    /\ \E i \in DOMAIN sk[Self].table :
          /\ pre.sk[Self].table[i] < U64_MAX /\ pre.sk[Other].table[i] < U64_MAX
          /\ pre.sk[Self].table[i] + pre.sk[Other].table[i] > U64_MAX
          /\ sk[Self].table[i] = U64_MAX

----------------------------------------------------------------------------
\* The tables a state holds: those of the two sketches, now and before the
\* last call.
TablesOfState == {sk[s].table : s \in Sketches} \cup {pre.sk[s].table : s \in Sketches}

\* C12: on tables of identical dimensions merge is commutative (the table of A
\* after A.merge(B) is the table of B after B.merge(A)) and associative
\* (merging B then C into A gives the table of merging into A the result of
\* B.merge(C)), for all counter values, those that reach the maximum included;
\* and a successful merge leaves in A the table this operation computes.
C12_MergeCommutesAssociates ==
    /\ \A a \in TablesOfState, b \in TablesOfState :
          DOMAIN a = DOMAIN b =>
              /\ MergeTable(a, b) = MergeTable(b, a)
              /\ LET ab == MergeTable(a, b)
                 IN  \A c \in TablesOfState :
                         DOMAIN b = DOMAIN c =>
                             MergeTable(ab, c) = MergeTable(a, MergeTable(b, c))
    /\ (last.op = "merge" /\ last.status = "Ok") =>
          /\ sk[Self].table = MergeTable(pre.sk[Self].table, pre.sk[Other].table)
          /\ sk[Self].table = MergeTable(pre.sk[Other].table, pre.sk[Self].table)

\* C12 witness: a merge has just succeeded, and of the three different tables
\* A before the merge, B, and A after it, some cell is below the maximum in
\* each and in the sum of any two but above it in the sum of the three.
C12_Witness ==
    /\ last.op = "merge" /\ last.status = "Ok"
    /\ LET a == pre.sk[Self].table
           b == sk[Other].table
           c == sk[Self].table
       IN  /\ a # b /\ b # c /\ a # c
           /\ \E i \in DOMAIN a :
                 /\ a[i] > 0 /\ b[i] > 0
                 /\ a[i] + b[i] < U64_MAX /\ b[i] + c[i] <= U64_MAX
                 /\ a[i] + b[i] + c[i] > U64_MAX
           /\ \E i \in DOMAIN a : a[i] + b[i] > U64_MAX

----------------------------------------------------------------------------
\* The sum, over the cells first..last of a row, of the absolute difference of
\* the counters of a and b: a natural number, however large.
RECURSIVE AbsDiffSum(_, _, _, _)
AbsDiffSum(a, b, first, last_cell) ==
    IF first > last_cell THEN 0
    ELSE (IF a.table[first] >= b.table[first]
            THEN a.table[first] - b.table[first]
            ELSE b.table[first] - a.table[first])
         + AbsDiffSum(a, b, first + 1, last_cell)

RowDistances(a, b) ==
    {AbsDiffSum(a, b, d * a.width, d * a.width + a.width - 1) : d \in 0..(a.depth - 1)}

\* C13 (as claimed): for two sketches of identical dimensions and any counter
\* values up to the maximum, l1_distance returns the minimum over the rows of
\* the row's sum of absolute differences of the counters, and changes neither
\* sketch.
C13_L1IsMinRowSum ==
    (/\ last.op = "l1_distance"
     /\ ~DimensionsDiffer(pre.sk[Self], pre.sk[Other]))
    => /\ last.status = "Ok"
       /\ last.val = MinOf(RowDistances(pre.sk[Self], pre.sk[Other]))
       /\ sk = pre.sk

----------------------------------------------------------------------------
\* C14: l1_distance is 0 whenever the two sketches have identical dimensions
\* and identical tables; in particular l1_distance(S, S) = 0 for any sketch S,
\* and two sketches of the same dimensions and seeds that received the same
\* increments have distance 0.
C14_SelfDistanceZero ==
    last.op = "l1_distance" =>
        /\ (/\ ~DimensionsDiffer(pre.sk[Self], pre.sk[Other])
            /\ pre.sk[Self].table = pre.sk[Other].table)
           => (last.status = "Ok" /\ last.val = 0)
        /\ Self = Other => (last.status = "Ok" /\ last.val = 0)
        /\ (/\ ~DimensionsDiffer(pre.sk[Self], pre.sk[Other])
            /\ pre.sk[Self].hasher = pre.sk[Other].hasher
            /\ pre.merges[Self] = 0 /\ pre.merges[Other] = 0
            /\ pre.count[Self] = pre.count[Other])
           => (last.status = "Ok" /\ last.val = 0)

\* C14 witness: l1_distance has just returned 0 for two different sketches that
\* each received the same increments, of two items.
C14_Witness ==
    /\ last.op = "l1_distance" /\ last.status = "Ok" /\ last.val = 0
    /\ Self # Other
    /\ pre.sk[Self].hasher = pre.sk[Other].hasher
    /\ pre.merges[Self] = 0 /\ pre.merges[Other] = 0
    /\ pre.count[Self] = pre.count[Other]
    /\ \A x \in Items : pre.count[Self][x] > 0

----------------------------------------------------------------------------
\* Two sketches have the same width, depth and hash seeds.
SameConfiguration(a, b) ==
    /\ GetWidth(a) = GetWidth(b)
    /\ GetDepth(a) = GetDepth(b)
    /\ a.hasher = b.hasher

\* C15: two sketches constructed with the same width, depth and hash seeds (two
\* sketches built by new with the same dimensions among them) map every item
\* to the same cell index in every row; so, having received the same
\* increments since construction or the last clear, their tables are
\* identical and they return the same estimate for every item.
C15_EqualSeedsDeterminism ==
    LET s == "A"
        o == "B"
    IN  SameConfiguration(sk[s], sk[o]) =>
            /\ \A x \in Items : IndicesOf(sk[s], x) = IndicesOf(sk[o], x)
            /\ (merges[s] = 0 /\ merges[o] = 0 /\ count[s] = count[o]) =>
                  /\ sk[s].table = sk[o].table
                  /\ \A x \in Items : Estimate(sk[s], x) = Estimate(sk[o], x)

\* C15 witness: two sketches built by new from different requested widths that
\* round to the same width hold the same increments, of two items whose cells
\* differ in some row.
C15_Witness ==
    /\ ctor["A"].kind = "new" /\ ctor["B"].kind = "new"
    /\ ctor["A"].width # ctor["B"].width
    /\ SameConfiguration(sk["A"], sk["B"])
    /\ merges["A"] = 0 /\ merges["B"] = 0
    /\ count["A"] = count["B"]
    /\ \A x \in Items : count["A"][x] > 0
    /\ \E x \in Items : \E y \in Items \ {x} : IndicesOf(sk["A"], x) # IndicesOf(sk["A"], y)
    /\ sk["A"].table = sk["B"].table

----------------------------------------------------------------------------
FloatOne == FloatOfU64(1)

\* x is 1.0 within a tolerance of two machine epsilons.
WithinToleranceOfOne(x) ==
    /\ x.e \in {-MantissaBits, 1 - MantissaBits}
    /\ x.m * Pow2(x.e + MantissaBits) - Pow2(MantissaBits) \in -4..4

Returned == [m |-> last.val, e |-> last.exp]

\* C16 (as claimed): for two sketches of identical dimensions
\* cosine_similarity returns a value in [0, 1], and the value is 1.0 within
\* floating-point tolerance when a sketch with a non-zero counter is compared
\* to itself or to a sketch with an identical table.
C16_CosineRangeAndIdentity ==
    (/\ last.op = "cosine_similarity"
     /\ ~DimensionsDiffer(pre.sk[Self], pre.sk[Other]))
    => /\ last.status = "Ok"
       /\ ~FloatLess(Returned, FloatZero)
       /\ ~FloatLess(FloatOne, Returned)
       /\ (pre.sk[Self].table = pre.sk[Other].table /\ ~AllZero(pre.sk[Self]))
             => WithinToleranceOfOne(Returned)

----------------------------------------------------------------------------
\* The cells of s that increments may have reached since its construction or
\* last clear: those of the items s has absorbed, under its own seeds and, once
\* another sketch was merged into it, under the seeds of that sketch too.
TouchedCells(s) ==
    LET absorbed == {y \in Items : count[s][y] > 0}
        seeds == {sk[s].hasher} \cup
                 (IF merges[s] > 0 THEN {sk[o].hasher : o \in Sketches} ELSE {})
    IN  {IndicesOf([sk[s] EXCEPT !.hasher = h], y)[i] :
            h \in seeds, y \in absorbed, i \in 0..(sk[s].depth - 1)}

\* x was never incremented in s or in a sketch merged into it, and some cell of
\* x is untouched by the other items.
NeverIncremented(s, x) ==
    /\ count[s][x] = 0
    /\ \E i \in 0..(sk[s].depth - 1) : IndicesOf(sk[s], x)[i] \notin TouchedCells(s)

----------------------------------------------------------------------------
HashValues == 0..(HashMod - 1)

\* Every hash value has, in a sketch of this shape, the indices the claim says.
IndexRangeHolds(width, depth, mask, len) ==
    \A h1 \in HashValues :
        LET h2 == MixTable[h1]
            idxs == CalculateIndices(h1, depth, width, mask)
        IN  /\ h2 % 2 = 1
            /\ DOMAIN idxs = 0..(depth - 1)
            /\ \A i \in 0..(depth - 1) :
                  /\ idxs[i] = i * width + (((h1 + i * h2) % HashMod) % width)
                  /\ i * width <= idxs[i]
                  /\ idxs[i] < i * width + width
                  /\ idxs[i] < len

ShapeOf(s) == <<s.width, s.depth, s.width_mask, TableLen(s)>>

\* The shapes the constructor calls of the specifications produce, and those
\* among them on which the indices are as claimed (evaluated once).
ConstructedShapes ==
    {ShapeOf(Construct(c)) : c \in AllCtorCalls \cup CtorCalls \cup SatCtorCalls}

ShapesInRange ==
    {sh \in ConstructedShapes : IndexRangeHolds(sh[1], sh[2], sh[3], sh[4])}

----------------------------------------------------------------------------
\* The cells of row i of a sketch of this width.
RowCells(width, i) == (i * width)..(i * width + width - 1)

\* C19: one increment(x) changes exactly one cell in each of the depth rows,
\* the cell at x's index for that row, raising it by exactly 1 unless it is at
\* the maximum, in which case it is unchanged; every other cell, the width, the
\* depth and the seeds are unchanged (as is the other sketch), and the call
\* succeeds.
C19_IncrementEffect ==
    last.op = "increment" =>
        LET old == pre.sk[Self]
            new == sk[Self]
            idxs == IndicesOf(old, last.item)
            cells == {idxs[i] : i \in 0..(old.depth - 1)}
        IN  /\ last.status = "Ok"
            /\ DOMAIN new.table = DOMAIN old.table
            /\ \A i \in 0..(old.depth - 1) :
                  /\ cells \cap RowCells(old.width, i) = {idxs[i]}
                  /\ new.table[idxs[i]] =
                        IF old.table[idxs[i]] = U64_MAX THEN U64_MAX
                        ELSE old.table[idxs[i]] + 1
            /\ \A j \in DOMAIN old.table \ cells : new.table[j] = old.table[j]
            /\ new.width = old.width /\ new.width_mask = old.width_mask
            /\ new.depth = old.depth /\ new.hasher = old.hasher
            /\ \A o \in Sketches \ {Self} : sk[o] = pre.sk[o]

\* C19 witness: an increment has just found one of the item's cells at the
\* maximum, which it left unchanged, and raised another of its cells by 1.
C19_Witness ==
    /\ last.op = "increment"
    /\ LET idxs == IndicesOf(pre.sk[Self], last.item)
       IN  /\ \E i \in DOMAIN idxs :
                 pre.sk[Self].table[idxs[i]] = U64_MAX /\ sk[Self].table[idxs[i]] = U64_MAX
           /\ \E i \in DOMAIN idxs :
                 sk[Self].table[idxs[i]] = pre.sk[Self].table[idxs[i]] + 1

----------------------------------------------------------------------------
\* No counter of s is at the maximum: none has clipped since the construction
\* or last clear of s (a clipped counter stays at the maximum until a clear).
Unsaturated(s) == \A i \in DOMAIN s.table : s.table[i] < U64_MAX

\* C20: in every state reached by increments and successful merges since
\* construction or the last clear in which no counter has saturated, each of
\* the depth rows has the same sum of counters, the number of increments the
\* sketch has absorbed (its own and those of every sketch merged into it), and
\* so estimate(x) never exceeds that number.
C20_RowSums ==
    /\ \A s \in Sketches :
          Unsaturated(sk[s]) =>
              LET total == TotalCount(s)
              IN  \A d \in 0..(sk[s].depth - 1) : RowSum(sk[s], d) = total
    /\ (last.op = "estimate" /\ Unsaturated(sk[Self])) => last.val <= TotalCount(Self)

\* C20 witness: a sketch that has absorbed, by increments of its own and by a
\* merge of a sketch with other seeds, as many increments as the maximum of a
\* counter, has no counter at the maximum.
C20_Witness ==
    \E s \in Sketches :
        /\ Unsaturated(sk[s])
        /\ merges[s] > 0
        /\ \E o \in Sketches : sk[o].hasher # sk[s].hasher /\ ~AllZero(sk[o])
        /\ TotalCount(s) >= U64_MAX
        /\ \E x \in Items : Estimate(sk[s], x) > 0 /\ Estimate(sk[s], x) < TotalCount(s)

----------------------------------------------------------------------------
\* The effective (post-rounding) width and depth of the two sketches are equal.
SameEffectiveDims(a, b) == GetWidth(a) = GetWidth(b) /\ GetDepth(a) = GetDepth(b)

\* C21 (as claimed): merge, l1_distance and cosine_similarity succeed if and
\* only if the effective width and depth of the two sketches are equal, whatever
\* the requested dimensions and the hash seeds; a successful merge modifies
\* only the counters of the receiving sketch, and the other calls modify
\* nothing.
C21_CompatibilityCheck ==
    last.op \in {"merge", "l1_distance", "cosine_similarity"} =>
        /\ last.status = "Ok" <=> SameEffectiveDims(pre.sk[Self], pre.sk[Other])
        /\ ~SameEffectiveDims(pre.sk[Self], pre.sk[Other]) => last.status = "Err"
        /\ \A o \in Sketches \ {Self} : sk[o] = pre.sk[o]
        /\ sk[Self] = [pre.sk[Self] EXCEPT !.table = sk[Self].table]
        /\ DOMAIN sk[Self].table = DOMAIN pre.sk[Self].table
        /\ (last.op # "merge" \/ last.status # "Ok") => sk = pre.sk

====
